---- MODULE Spec2Model ----
(***************************************************************************)
(* Timeseries database benchmarks: the timed-run harness (benchmark/run.py),*)
(* the benchmark wrappers (benchmark/benchmarks/*.py) and the five backend  *)
(* adapters (benchmark/db/*.py) over a model of the backends' stores.       *)
(*                                                                         *)
(* Spec    : one invocation of the harness main().                         *)
(* SpecDb  : a serial client of one adapter instance (the adapter contract *)
(*           operations and the insert benchmark wrapper).                 *)
(***************************************************************************)
EXTENDS Integers, Sequences, FiniteSets, TLC

VARIABLES
    \* ---- one adapter instance and its backend ----
    db,            \* [backend, conn, committed, view, seq]
    last,          \* the last call of the client and what it did
    client,        \* what the client holds: identifiers returned to it
    \* ---- harness (run.py) ----
    args,          \* the parsed command line
    pc,            \* position of main()
    warm_i,        \* warmup iterations completed
    run_i,         \* measured iterations completed (the loop variable i)
    results_file,  \* the result sink: [exists, rows]
    h_conn,        \* db._conn of the adapter main() loaded
    exc,           \* the exception propagating out of main(), or "none"
    hist           \* history of the invocation (calls made, failed iteration)

hvars == <<args, pc, warm_i, run_i, results_file, h_conn, exc, hist>>
dvars == <<db, last, client>>

None == "None"

Max(a, b) == IF a >= b THEN a ELSE b
Min(a, b) == IF a <= b THEN a ELSE b

\* ---------------------------------------------------------------------
\* Bounds of the harness inputs
\* ---------------------------------------------------------------------
MaxRuns == 2
MaxWarmup == 2
MaxRowCount == 1

DbChoices == {"mssql_narrow", "mssql_wide", "questdb", "timescaledb"}
BenchmarkChoices == {"job_full", "last_n_by_vehicle", "dashboard_speed_10m"}
RowCounts == 0..MaxRowCount

\* --vehicle-id has no default; --start-ts/--end-ts are free strings that
\* parse_dt() hands to datetime.fromisoformat.
VehicleArgs == {None, "7"}
TsArgs == {None, "iso", "malformed"}

Args ==
    [db : DbChoices, benchmark : BenchmarkChoices, job_id : {"3137"},
     vehicle_id : VehicleArgs, start_ts : TsArgs, end_ts : TsArgs,
     runs : -1..MaxRuns, warmup : -1..MaxWarmup]

\* ---------------------------------------------------------------------
\* The result sink
\* ---------------------------------------------------------------------
HEADER == <<"ts_utc", "db", "benchmark", "run_idx", "latency_ms", "row_count", "params_json">>

\* ensure_results_file opening the file for writing whether or not it exists.
ensure_results_file_Truncate(f) == [exists |-> TRUE, rows |-> <<HEADER>>]

\* ensure_results_file: the header is written only when the file is absent.
ensure_results_file(f) ==
    IF ~f.exists THEN [exists |-> TRUE, rows |-> <<HEADER>>] ELSE f

\* append_result writing the 0-based loop variable instead of i + 1.
append_result_ZeroBased(f, idx, r) ==
    [exists |-> TRUE,
     rows |-> (IF f.exists THEN f.rows ELSE <<>>)
                \o <<[db |-> r.db, benchmark |-> r.benchmark, run_idx |-> idx - 1,
                      row_count |-> r.row_count]>>]

\* append_result: one row per measured iteration, opened in append mode.
\* (ts_utc and latency_ms are wall-clock readings and are left out.)
append_result(f, idx, r) ==
    [exists |-> TRUE,
     rows |-> (IF f.exists THEN f.rows ELSE <<>>)
                \o <<[db |-> r.db, benchmark |-> r.benchmark, run_idx |-> idx,
                      row_count |-> r.row_count]>>]

\* ---------------------------------------------------------------------
\* Benchmark wrappers: one adapter query between two timer readings.
\* q is what the adapter call does: [exc, row_count].
\* ---------------------------------------------------------------------
BenchmarkRun(name, db_name, rc) == [benchmark |-> name, db |-> db_name, row_count |-> rc]

Returned(r, n) == [exc |-> "none", r |-> r, adapter_calls |-> n]
Raised(e, n) == [exc |-> e, r |-> None, adapter_calls |-> n]

run_job_full(db_name, q) ==
    IF q.exc # "none" THEN Raised(q.exc, 1)
    ELSE Returned(BenchmarkRun("job_full", db_name, q.row_count), 1)

run_last_n_by_vehicle(db_name, q) ==
    IF q.exc # "none" THEN Raised(q.exc, 1)
    ELSE Returned(BenchmarkRun("job_full", db_name, q.row_count), 1)

run_dashboard_speed_10m(db_name, q) ==
    IF q.exc # "none" THEN Raised(q.exc, 1)
    ELSE Returned(BenchmarkRun("dashboard_speed_10m", db_name, q.row_count), 1)

\* parse_dt: datetime.fromisoformat raises ValueError on a malformed string.
parse_dt_raises(s) == s = "malformed"

\* run_selected_benchmark without its parameter checks.
run_selected_benchmark_Unchecked(a, q) ==
    IF a.benchmark = "job_full" THEN run_job_full(a.db, q)
    ELSE IF a.benchmark = "last_n_by_vehicle" THEN run_last_n_by_vehicle(a.db, q)
    ELSE run_dashboard_speed_10m(a.db, q)

run_selected_benchmark(a, q) ==
    IF a.benchmark = "job_full" THEN
        IF a.job_id = None THEN Raised("ValueError", 0)
        ELSE run_job_full(a.db, q)
    ELSE IF a.benchmark = "last_n_by_vehicle" THEN
        IF a.vehicle_id = None THEN Raised("ValueError", 0)
        ELSE run_last_n_by_vehicle(a.db, q)
    ELSE IF a.benchmark = "dashboard_speed_10m" THEN
        IF a.vehicle_id = None \/ a.start_ts = None \/ a.end_ts = None
        THEN Raised("ValueError", 0)
        ELSE IF parse_dt_raises(a.start_ts) \/ parse_dt_raises(a.end_ts)
        THEN Raised("ValueError", 0)
        ELSE run_dashboard_speed_10m(a.db, q)
    ELSE Raised("ValueError", 0)

\* What an adapter query can do while connected: return a count or raise.
QueryOutcomes ==
    [exc : {"none"}, row_count : RowCounts] \cup [exc : {"BackendError"}, row_count : {0}]

\* ---------------------------------------------------------------------
\* main()
\* ---------------------------------------------------------------------
NoHist ==
    [connects |-> 0, closes |-> 0, selected |-> 0, adapter_calls |-> 0,
     failed |-> None, failed_idx |-> 0, calls_after_failure |-> 0, base |-> <<>>,
     inv |-> 1]

SinkInit ==
    { [exists |-> FALSE, rows |-> <<>>],
      [exists |-> TRUE, rows |-> <<HEADER>>],
      [exists |-> TRUE,
       rows |-> <<HEADER, [db |-> "questdb", benchmark |-> "job_full",
                           run_idx |-> 1, row_count |-> 0]>>] }

HInit ==
    /\ args \in Args
    /\ pc = "ensure_results_file"
    /\ warm_i = 0
    /\ run_i = 0
    /\ results_file \in SinkInit
    /\ h_conn = None
    /\ exc = "none"
    /\ hist = NoHist

\* lines 94-95
MainEnsureResultsFile ==
    /\ pc = "ensure_results_file"
    /\ results_file' = ensure_results_file(results_file)
    /\ hist' = [hist EXCEPT !.base = results_file'.rows]
    /\ pc' = "connect"
    /\ UNCHANGED <<args, warm_i, run_i, h_conn, exc, db, last, client>>

\* lines 97-98: load_db and db.connect(), outside the try block.
MainConnect ==
    /\ pc = "connect"
    /\ \E ok \in BOOLEAN :
         IF ok
         THEN /\ h_conn' = "open"
              /\ hist' = [hist EXCEPT !.connects = @ + 1]
              /\ pc' = "warmup"
              /\ exc' = exc
         ELSE /\ h_conn' = None
              /\ hist' = hist
              /\ pc' = "done"
              /\ exc' = "BackendError"
    /\ UNCHANGED <<args, warm_i, run_i, results_file, db, last, client>>

NoteCall(h, res, phase, idx) ==
    [h EXCEPT !.selected = @ + 1,
              !.adapter_calls = @ + res.adapter_calls,
              !.calls_after_failure = IF h.failed # None THEN @ + 1 ELSE @,
              !.failed = IF res.exc # "none" /\ h.failed = None THEN phase ELSE @,
              !.failed_idx = IF res.exc # "none" /\ h.failed = None THEN idx ELSE @]

\* lines 102-103: one warmup iteration; its BenchmarkRun is dropped.
MainWarmup ==
    /\ pc = "warmup"
    /\ warm_i < Max(0, args.warmup)
    /\ \E q \in QueryOutcomes :
         LET res == run_selected_benchmark(args, q) IN
         /\ hist' = NoteCall(hist, res, "warmup", warm_i + 1)
         /\ IF res.exc = "none"
            THEN /\ warm_i' = warm_i + 1
                 /\ pc' = pc
                 /\ exc' = exc
            ELSE /\ warm_i' = warm_i
                 /\ pc' = "finally"
                 /\ exc' = res.exc
    /\ UNCHANGED <<args, run_i, results_file, h_conn, db, last, client>>

MainWarmupDone ==
    /\ pc = "warmup"
    /\ warm_i >= Max(0, args.warmup)
    /\ pc' = "runs"
    /\ UNCHANGED <<args, warm_i, run_i, results_file, h_conn, exc, hist, db, last, client>>

\* MainRun with the try/finally dropped: an exception leaves main() at once.
MainRun_NoFinally ==
    /\ pc = "runs"
    /\ run_i < args.runs
    /\ \E q \in QueryOutcomes :
         LET res == run_selected_benchmark(args, q) IN
         /\ hist' = NoteCall(hist, res, "measured", run_i + 1)
         /\ IF res.exc = "none"
            THEN /\ results_file' = append_result(results_file, run_i + 1, res.r)
                 /\ run_i' = run_i + 1
                 /\ pc' = pc
                 /\ exc' = exc
            ELSE /\ results_file' = results_file
                 /\ run_i' = run_i
                 /\ pc' = "done"
                 /\ exc' = res.exc
    /\ UNCHANGED <<args, warm_i, h_conn, db, last, client>>

\* MainRun with the exception caught inside the loop: the loop goes on.
MainRun_Swallow ==
    /\ pc = "runs"
    /\ run_i < args.runs
    /\ \E q \in QueryOutcomes :
         LET res == run_selected_benchmark(args, q) IN
         /\ hist' = NoteCall(hist, res, "measured", run_i + 1)
         /\ results_file' = IF res.exc = "none"
                            THEN append_result(results_file, run_i + 1, res.r)
                            ELSE results_file
         /\ run_i' = run_i + 1
         /\ pc' = pc
         /\ exc' = IF res.exc = "none" THEN exc ELSE res.exc
    /\ UNCHANGED <<args, warm_i, h_conn, db, last, client>>

\* lines 106-109: one measured iteration; its row is appended with i + 1.
MainRun ==
    /\ pc = "runs"
    /\ run_i < args.runs
    /\ \E q \in QueryOutcomes :
         LET res == run_selected_benchmark(args, q) IN
         /\ hist' = NoteCall(hist, res, "measured", run_i + 1)
         /\ IF res.exc = "none"
            THEN /\ results_file' = append_result(results_file, run_i + 1, res.r)
                 /\ run_i' = run_i + 1
                 /\ pc' = pc
                 /\ exc' = exc
            ELSE /\ results_file' = results_file
                 /\ run_i' = run_i
                 /\ pc' = "finally"
                 /\ exc' = res.exc
    /\ UNCHANGED <<args, warm_i, h_conn, db, last, client>>

MainRunsDone ==
    /\ pc = "runs"
    /\ run_i >= args.runs
    /\ pc' = "finally"
    /\ UNCHANGED <<args, warm_i, run_i, results_file, h_conn, exc, hist, db, last, client>>

\* lines 111-114: the finally block; the adapters' close() clears the handle
\* in its own finally even when the driver's close raises.
MainFinally ==
    /\ pc = "finally"
    /\ \E driver_close_raises \in BOOLEAN :
         /\ h_conn' = None
         /\ hist' = [hist EXCEPT !.closes = @ + 1]
         /\ exc' = IF driver_close_raises THEN "BackendError" ELSE exc
    /\ pc' = "done"
    /\ UNCHANGED <<args, warm_i, run_i, results_file, db, last, client>>

HNext ==
    \/ MainEnsureResultsFile
    \/ MainConnect
    \/ MainWarmup
    \/ MainWarmupDone
    \/ MainRun
    \/ MainRunsDone
    \/ MainFinally

\* =====================================================================
\* The backends' stores and the adapters (benchmark/db/*.py)
\* =====================================================================
\* Rows are kept as segments: n rows at consecutive seconds t0, t0+1, ...
\* (the spacing run_insert_10k generates) that share job, vehicle and note.
\* A dataset segment [sid, id0, job_id, vehicle_id, t0, n, note] stands for
\* the rows with id id0+k and timestamp t0+k, k < n; a sensor_record
\* segment [sid, id0, dataset_id0, n] for the rows (id0+k, dataset_id0+k).
\* sid is the model's own row address (it orders the writes). Columns a
\* backend's table does not have are NoId / NoMarker.
BATCH_SIZE == 500
PAGE_SIZE == 1000
SPEED_SENSOR_ID == 45

Backends == {"mssql_narrow", "mssql_wide", "questdb", "timescaledb", "influxdb"}
Transactional == {"mssql_narrow", "mssql_wide", "timescaledb"}

EmptyStore == [vehicle |-> {}, job |-> {}, dataset |-> {}, sensor_record |-> {}]

RECURSIVE SumN(_)
SumN(S) == IF S = {} THEN 0 ELSE LET s == CHOOSE x \in S : TRUE IN s.n + SumN(S \ {s})

RECURSIVE MaxOf(_)
MaxOf(S) == IF S = {} THEN 0 ELSE LET x == CHOOSE y \in S : TRUE IN Max(x, MaxOf(S \ {x}))

\* Rows two id ranges [a0, a0+an) and [b0, b0+bn) share.
Overlap(a0, an, b0, bn) == Max(0, Min(a0 + an, b0 + bn) - Max(a0, b0))

\* The next id read as if the table were empty.
MaxSegId_Empty(S) == 0

\* ISNULL(MAX(id), 0) over a table of segments / of plain ids.
MaxSegId(S) == MaxOf({s.id0 + s.n - 1 : s \in S})
MaxRowId(S) == MaxOf({r.id : r \in S})

\* A column the backend's table does not have, or an identifier that was
\* never assigned: identifiers are positive. A row without a marker column
\* carries the empty marker.
NoId == 0 - 1
NoMarker == <<>>

\* commit() that leaves the transaction open.
Commit_Deferred(w) == w
Commit(w) == [w EXCEPT !.committed = w.view]

\* rollback() that discards nothing.
Rollback_Keep(w) == w
Rollback(w) == [w EXCEPT !.view = w.committed]

\* What an adapter call did: the adapter and store after it, the exception
\* it raised ("none": it returned ret), the rollbacks it invoked and the
\* sizes of the chunks it handed to the backend's write transport.
Res(w, e, ret, rb, tr) == [w |-> w, exc |-> e, ret |-> ret, rollbacks |-> rb, transport |-> tr]
Ok(w, ret) == Res(w, "none", ret, 0, <<>>)
Err(w, e) == Res(w, e, None, 0, <<>>)
NotConnected(w) == Err(w, "RuntimeError")

\* A read that reached the backend: the query it sent stands in the
\* transport field. The backend may fail it.
\* A read that ends with a commit on its connection.
Queried_Commit(w, ret) == Res(Commit(w), "none", ret, 0, <<"query">>)

Queried(w, ret) == Res(w, "none", ret, 0, <<"query">>)
QueryFailed(w) == Res(w, "BackendError", None, 0, <<"query">>)
ReadOutcome(q, raises) == IF raises /\ q.exc = "none" THEN QueryFailed(q.w) ELSE q

\* ---- connect / close (the same code in every SQL adapter) -----------
\* close: the driver's close may raise; the handle is cleared in finally.
\* seq.opened / seq.released count the backend handles the adapter has
\* opened and let go of.
\* The server discards the connection's uncommitted work.
\* connect without the early return: a connected adapter opens a second
\* handle over the first.
connect_Reopen(w, ok) ==
    IF ok THEN Ok([w EXCEPT !.conn = "open", !.seq.opened = @ + 1], None)
    ELSE Err(w, "BackendError")

\* close that leaves the handle in place when the driver's close raises.
close_NoFinally(w, driver_raises) ==
    IF w.conn = None THEN Ok(w, None)
    ELSE IF driver_raises THEN Err(w, "BackendError")
    ELSE Ok(Rollback([w EXCEPT !.conn = None, !.seq.released = @ + 1]), None)

connect(w, ok) ==
    IF w.conn # None THEN Ok(w, None)
    ELSE IF ok THEN Ok([w EXCEPT !.conn = "open", !.seq.opened = @ + 1], None)
    ELSE Err(w, "BackendError")

close(w, driver_raises) ==
    IF w.conn = None THEN Ok(w, None)
    ELSE LET w1 == Rollback([w EXCEPT !.conn = None, !.seq.released = @ + 1]) IN
         IF driver_raises THEN Err(w1, "BackendError") ELSE Ok(w1, None)

\* ---- a batch and its chunks -----------------------------------------
\* InsertBatch(job_id, vehicle_id, start_ts, end_ts, rows, marker) with
\* rows = n InsertRow at t0, t0+1, ...
InsertRowFields == {"timestamp", "tel_speed"}

\* for i in range(0, len(rows), size): rows[i:i + size], as the lengths
\* of the slices in dispatch order.
\* range(0, len(rows) - size + 1, size): the short last slice is lost.
ChunkLens_DropTail(n, size) == [i \in 1..(n \div size) |-> size]

RECURSIVE ChunkLens(_, _)
ChunkLens(n, size) ==
    IF n <= 0 THEN <<>> ELSE <<Min(n, size)>> \o ChunkLens(n - size, size)

RECURSIVE SumSeq(_)
SumSeq(q) == IF q = <<>> THEN 0 ELSE Head(q) + SumSeq(Tail(q))

\* The dataset segments of the first k chunks of a batch, as a backend
\* whose table has the given columns stores them.
ChunkSegs(batch, lens, k, sid0, id0, veh, note) ==
    { [sid |-> sid0 + i - 1,
       id0 |-> IF id0 = NoId THEN NoId ELSE id0 + SumSeq(SubSeq(lens, 1, i - 1)),
       job_id |-> batch.job_id, vehicle_id |-> veh,
       t0 |-> batch.t0 + SumSeq(SubSeq(lens, 1, i - 1)),
       n |-> lens[i], note |-> note] : i \in 1..k }

BumpSid(w, k) == [w EXCEPT !.seq.sid = @ + k]

\* ---- MSSQL, narrow layout (mssql_narrow.py) -------------------------
\* f is the driver call that raises (0: none).
NarrowCreateVehicle(w, f) ==
    IF w.conn = None THEN NotConnected(w)
    ELSE IF f = 1 THEN Err(w, "BackendError")
    ELSE LET vehicle_id == MaxOf(w.view.vehicle) + 1
             w1 == [w EXCEPT !.view.vehicle = @ \cup {vehicle_id}] IN
         IF f = 2 THEN Err(w, "BackendError")
         ELSE IF f = 3 THEN Err(w1, "BackendError")
         ELSE Ok(Commit(w1), vehicle_id)

NarrowCreateJob(w, vehicle_id, f) ==
    IF w.conn = None THEN NotConnected(w)
    ELSE IF f = 1 THEN Err(w, "BackendError")
    ELSE LET job_id == MaxRowId(w.view.job) + 1
             w1 == [w EXCEPT !.view.job = @ \cup {[id |-> job_id, vehicle_id |-> vehicle_id]}] IN
         IF f = 2 THEN Err(w, "BackendError")
         ELSE IF f = 3 THEN Err(w1, "BackendError")
         ELSE Ok(Commit(w1), job_id)

JobsOfVehicle(st, vehicle_id) == {j.id : j \in {x \in st.job : x.vehicle_id = vehicle_id}}

\* DELETE sr FROM sensor_record sr JOIN dataset d JOIN job j WHERE j.vehicle_id = ?
NarrowDeleteSensorRecords(st, vehicle_id) ==
    [st EXCEPT !.sensor_record =
        {s \in @ : ~\E d \in st.dataset :
                      /\ d.job_id \in JobsOfVehicle(st, vehicle_id)
                      /\ Overlap(s.dataset_id0, s.n, d.id0, d.n) > 0}]

\* The delete without its WHERE clause.
DeleteDatasetByVehicle_All(st, vehicle_id) == [st EXCEPT !.dataset = {}]

\* DELETE d FROM dataset d JOIN job j WHERE j.vehicle_id = ?
DeleteDatasetByVehicle(st, vehicle_id) ==
    [st EXCEPT !.dataset = {d \in @ : d.job_id \notin JobsOfVehicle(st, vehicle_id)}]

DeleteDatasetByJob(st, job_id) == [st EXCEPT !.dataset = {d \in @ : d.job_id # job_id}]
DeleteJob(st, job_id) == [st EXCEPT !.job = {j \in @ : j.id # job_id}]
DeleteJobByVehicle(st, vehicle_id) == [st EXCEPT !.job = {j \in @ : j.vehicle_id # vehicle_id}]
DeleteVehicle(st, vehicle_id) == [st EXCEPT !.vehicle = @ \ {vehicle_id}]

\* No except clause: a failing statement leaves the earlier deletes pending
\* on the connection.
NarrowCleanData(w, vehicle_id, job_id, f) ==
    IF w.conn = None THEN NotConnected(w)
    ELSE LET v1 == NarrowDeleteSensorRecords(w.view, vehicle_id)
             v2 == DeleteDatasetByVehicle(v1, vehicle_id)
             v3 == DeleteJob(v2, job_id)
             v4 == DeleteVehicle(v3, vehicle_id) IN
         IF f = 1 THEN Err(w, "BackendError")
         ELSE IF f = 2 THEN Err([w EXCEPT !.view = v1], "BackendError")
         ELSE IF f = 3 THEN Err([w EXCEPT !.view = v2], "BackendError")
         ELSE IF f = 4 THEN Err([w EXCEPT !.view = v3], "BackendError")
         ELSE IF f = 5 THEN Err([w EXCEPT !.view = v4], "BackendError")
         ELSE Ok(Commit([w EXCEPT !.view = v4]), None)

\* One executemany for the dataset rows, one for the sensor_record rows,
\* one commit; any failure inside the try block rolls back and re-raises.
\* f = 1, 2: a SELECT of the next id raises (before the try block), f = 3:
\* the dataset executemany, f = 4: the sensor_record executemany, f = 5:
\* the commit.
NarrowInsertBatch(w, batch, f) ==
    IF w.conn = None THEN NotConnected(w)
    ELSE IF batch.n = 0 THEN Ok(w, 0)
    ELSE IF f = 1 \/ f = 2 THEN Err(w, "BackendError")
    ELSE LET next_dataset_id == MaxSegId(w.view.dataset) + 1
             next_sr_id == MaxSegId(w.view.sensor_record) + 1
             ds == [sid |-> w.seq.sid, id0 |-> next_dataset_id, job_id |-> batch.job_id,
                    vehicle_id |-> NoId, t0 |-> batch.t0, n |-> batch.n,
                    note |-> batch.marker]
             sr == [sid |-> w.seq.sid, id0 |-> next_sr_id,
                    dataset_id0 |-> next_dataset_id, n |-> batch.n]
             wa == BumpSid([w EXCEPT !.view.dataset = @ \cup {ds}], 1)
             wb == [wa EXCEPT !.view.sensor_record = @ \cup {sr}] IN
         IF f = 3 THEN Res(Rollback(w), "BackendError", None, 1, <<batch.n>>)
         ELSE IF f = 4 THEN Res(Rollback(wa), "BackendError", None, 1, <<batch.n>>)
         ELSE IF f = 5 THEN Res(Rollback(wb), "BackendError", None, 1, <<batch.n>>)
         ELSE Res(Commit(wb), "none", batch.n, 0, <<batch.n>>)

\* JOB_FULL_SQL: dataset JOIN sensor_record ON sr.dataset_id = d.id.
NarrowJobFull(w, job_id) ==
    IF w.conn = None THEN NotConnected(w)
    ELSE Queried(w, SumN({[d |-> d, s |-> s, n |-> Overlap(s.dataset_id0, s.n, d.id0, d.n)] :
                      <<d, s>> \in {x \in w.view.dataset : x.job_id = job_id}
                                     \X w.view.sensor_record}))

\* ---- MSSQL, wide layout (mssql_wide.py) ---------------------------
\* IDENTITY columns: the id comes from a counter that a rollback does not
\* give back.
WideCreateVehicle(w, f) ==
    IF w.conn = None THEN NotConnected(w)
    ELSE IF f = 1 THEN Res(Rollback(w), "BackendError", None, 1, <<>>)
    ELSE LET vehicle_id == w.seq.vehicle
             w1 == [w EXCEPT !.view.vehicle = @ \cup {vehicle_id}, !.seq.vehicle = @ + 1] IN
         IF f = 2 THEN Res(Rollback(w1), "BackendError", None, 1, <<>>)
         ELSE Ok(Commit(w1), vehicle_id)

WideCreateJob(w, vehicle_id, f) ==
    IF w.conn = None THEN NotConnected(w)
    ELSE IF f = 1 THEN Res(Rollback(w), "BackendError", None, 1, <<>>)
    ELSE LET job_id == w.seq.job
             w1 == [w EXCEPT !.view.job = @ \cup {[id |-> job_id, vehicle_id |-> vehicle_id]},
                             !.seq.job = @ + 1] IN
         IF f = 2 THEN Res(Rollback(w1), "BackendError", None, 1, <<>>)
         ELSE Ok(Commit(w1), job_id)

\* Five deletes and a commit, no except clause.
WideCleanData(w, vehicle_id, job_id, f) ==
    IF w.conn = None THEN NotConnected(w)
    ELSE LET v1 == DeleteDatasetByJob(w.view, job_id)
             v2 == DeleteJob(v1, job_id)
             v3 == DeleteDatasetByVehicle(v2, vehicle_id)
             v4 == DeleteJobByVehicle(v3, vehicle_id)
             v5 == DeleteVehicle(v4, vehicle_id) IN
         IF f = 1 THEN Err(w, "BackendError")
         ELSE IF f = 2 THEN Err([w EXCEPT !.view = v1], "BackendError")
         ELSE IF f = 3 THEN Err([w EXCEPT !.view = v2], "BackendError")
         ELSE IF f = 4 THEN Err([w EXCEPT !.view = v3], "BackendError")
         ELSE IF f = 5 THEN Err([w EXCEPT !.view = v4], "BackendError")
         ELSE IF f = 6 THEN Err([w EXCEPT !.view = v5], "BackendError")
         ELSE Ok(Commit([w EXCEPT !.view = v5]), None)

\* The rows are read through r.sensors; then executemany and commit per
\* chunk of BATCH_SIZE, all inside one try block. f is the chunk whose
\* executemany or commit raises.
WideInsertBatch(w, batch, f) ==
    IF w.conn = None THEN NotConnected(w)
    ELSE IF batch.n = 0 THEN Ok(w, 0)
    ELSE IF "sensors" \notin InsertRowFields THEN Err(w, "AttributeError")
    ELSE LET lens == ChunkLens(batch.n, BATCH_SIZE)
             k == IF f \in 1..Len(lens) THEN f - 1 ELSE Len(lens)
             segs == ChunkSegs(batch, lens, k, w.seq.sid, w.seq.dataset, NoId, batch.marker)
             w1 == [w EXCEPT !.view.dataset = @ \cup segs,
                             !.seq.sid = @ + k,
                             !.seq.dataset = @ + SumSeq(SubSeq(lens, 1, k))]
             wk == IF k > 0 THEN Commit(w1) ELSE w1 IN
         IF f \in 1..Len(lens)
         THEN Res(Rollback(wk), "BackendError", None, 1, SubSeq(lens, 1, f))
         ELSE Res(wk, "none", batch.n, 0, lens)

WideJobFull(w, job_id) ==
    IF w.conn = None THEN NotConnected(w)
    ELSE Queried(w, SumN({d \in w.view.dataset : d.job_id = job_id}))

\* ---- TimescaleDB (timescaledb.py) -----------------------------------
\* autocommit off; every write operation has try / except: rollback; raise.
TimescaleCreateVehicle(w, f) ==
    IF w.conn = None THEN NotConnected(w)
    ELSE IF f = 1 THEN Res(Rollback(w), "BackendError", None, 1, <<>>)
    ELSE LET vehicle_id == w.seq.vehicle
             w1 == [w EXCEPT !.view.vehicle = @ \cup {vehicle_id}, !.seq.vehicle = @ + 1] IN
         IF f = 2 THEN Res(Rollback(w1), "BackendError", None, 1, <<>>)
         ELSE Ok(Commit(w1), vehicle_id)

TimescaleCreateJob(w, vehicle_id, f) ==
    IF w.conn = None THEN NotConnected(w)
    ELSE IF f = 1 THEN Res(Rollback(w), "BackendError", None, 1, <<>>)
    ELSE LET job_id == w.seq.job
             w1 == [w EXCEPT !.view.job = @ \cup {[id |-> job_id, vehicle_id |-> vehicle_id]},
                             !.seq.job = @ + 1] IN
         IF f = 2 THEN Res(Rollback(w1), "BackendError", None, 1, <<>>)
         ELSE Ok(Commit(w1), job_id)

\* execute_values sends pages of PAGE_SIZE rows inside one transaction.
\* f = 1: execute_values raises, f = 2: commit raises.
TimescaleInsertBatch(w, batch, f) ==
    IF w.conn = None THEN NotConnected(w)
    ELSE IF batch.n = 0 THEN Ok(w, 0)
    ELSE LET seg == [sid |-> w.seq.sid, id0 |-> NoId, job_id |-> batch.job_id,
                     vehicle_id |-> batch.vehicle_id, t0 |-> batch.t0, n |-> batch.n,
                     note |-> batch.marker]
             w1 == BumpSid([w EXCEPT !.view.dataset = @ \cup {seg}], 1) IN
         IF f = 1 THEN Res(Rollback(w), "BackendError", None, 1, ChunkLens(batch.n, PAGE_SIZE))
         ELSE IF f = 2
         THEN Res(Rollback(w1), "BackendError", None, 1, ChunkLens(batch.n, PAGE_SIZE))
         ELSE Res(Commit(w1), "none", batch.n, 0, ChunkLens(batch.n, PAGE_SIZE))

TimescaleCleanData(w, vehicle_id, job_id, f) ==
    IF w.conn = None THEN NotConnected(w)
    ELSE LET v1 == DeleteDatasetByJob(w.view, job_id)
             v2 == DeleteJob(v1, job_id)
             v3 == DeleteVehicle(v2, vehicle_id) IN
         IF f \in {1, 2, 3, 4}
         THEN Res(Rollback(w), "BackendError", None, 1, <<>>)
         ELSE Ok(Commit([w EXCEPT !.view = v3]), None)

TimescaleJobFull(w, job_id) ==
    IF w.conn = None THEN NotConnected(w)
    ELSE Queried(w, SumN({d \in w.view.dataset : d.job_id = job_id}))

\* ---- QuestDB (questdb.py) -------------------------------------------
\* The pgwire connection is in autocommit mode: a statement is persisted
\* when it returns, commit() and rollback() change nothing. uuid4() is
\* modelled as a token never handed out before.
AutoWrite(w, st) == [w EXCEPT !.view = st, !.committed = st]

QuestCreateVehicle(w, f) ==
    IF w.conn = None THEN NotConnected(w)
    ELSE LET new_id == w.seq.uuid
             w0 == [w EXCEPT !.seq.uuid = @ + 1]
             w1 == AutoWrite(w0, [w.view EXCEPT !.vehicle = @ \cup {new_id}]) IN
         IF f = 1 THEN Res(w0, "BackendError", None, 1, <<>>)
         ELSE IF f = 2 THEN Res(w1, "BackendError", None, 1, <<>>)
         ELSE Ok(w1, new_id)

QuestCreateJob(w, vehicle_id, f) ==
    IF w.conn = None THEN NotConnected(w)
    ELSE LET new_id == w.seq.uuid
             w0 == [w EXCEPT !.seq.uuid = @ + 1]
             w1 == AutoWrite(w0, [w.view EXCEPT
                        !.job = @ \cup {[id |-> new_id, vehicle_id |-> vehicle_id]}]) IN
         IF f = 1 THEN Res(w0, "BackendError", None, 1, <<>>)
         ELSE IF f = 2 THEN Res(w1, "BackendError", None, 1, <<>>)
         ELSE Ok(w1, new_id)

\* clean_data starts with a bare return: nothing below it runs.
QuestCleanData(w, vehicle_id, job_id, f) == Ok(w, None)

\* ilp_insert_batch: one line "dataset,job_id=<job> telSpeed=<v> <ts>" per
\* row, one HTTP POST per BATCH_SIZE lines; f is the POST that fails.
\* insert_batch does not look at self._conn.
QuestInsertBatch(w, batch, f) ==
    LET lens == ChunkLens(batch.n, BATCH_SIZE)
        k == IF f \in 1..Len(lens) THEN f - 1 ELSE Len(lens)
        segs == ChunkSegs(batch, lens, k, w.seq.sid, NoId, NoId, NoMarker)
        w1 == BumpSid(AutoWrite(w, [w.view EXCEPT !.dataset = @ \cup segs]), k) IN
    IF f \in 1..Len(lens)
    THEN Res(w1, "BackendError", None, 0, SubSeq(lens, 1, f))
    ELSE Res(w1, "none", batch.n, 0, lens)

QuestJobFull(w, job_id) ==
    IF w.conn = None THEN NotConnected(w)
    ELSE Queried(w, SumN({d \in w.view.dataset : d.job_id = job_id}))

\* ---- InfluxDB (influxdb.py) -----------------------------------------
\* A point is identified by its tags (job_id, vehicle_id) and timestamp: a
\* second write of the same point replaces the first.
InfluxCreateVehicle(w, f) == Ok([w EXCEPT !.seq.uuid = @ + 1], w.seq.uuid)
InfluxCreateJob(w, vehicle_id, f) == Ok([w EXCEPT !.seq.uuid = @ + 1], w.seq.uuid)

InfluxInsertBatch(w, batch, f) ==
    IF w.conn = None THEN NotConnected(w)
    ELSE IF batch.n = 0 THEN Ok(w, 0)
    ELSE LET lens == ChunkLens(batch.n, BATCH_SIZE)
             k == IF f \in 1..Len(lens) THEN f - 1 ELSE Len(lens)
             segs == ChunkSegs(batch, lens, k, w.seq.sid, NoId, batch.vehicle_id, NoMarker)
             w1 == BumpSid(AutoWrite(w, [w.view EXCEPT !.dataset = @ \cup segs]), k) IN
         IF f \in 1..Len(lens)
         THEN Res(w1, "BackendError", None, 0, SubSeq(lens, 1, f))
         ELSE Res(w1, "none", batch.n, 0, lens)

\* delete_api.delete with predicate job_id="<job>" AND vehicle_id="<vehicle>".
InfluxCleanData(w, vehicle_id, job_id, f) ==
    IF w.conn = None THEN NotConnected(w)
    ELSE IF f = 1 THEN Err(w, "BackendError")
    ELSE Ok(AutoWrite(w, [w.view EXCEPT !.dataset =
                {d \in @ : ~(d.job_id = job_id /\ d.vehicle_id = vehicle_id)}]), None)

\* Points told apart by their tags only: the points of a series written
\* without their timestamps replace one another.
InfluxPoints_PerSeries(S) == Cardinality({<<d.job_id, d.vehicle_id>> : d \in S})

\* The distinct points of a set of segments of one measurement.
InfluxPoints(S) ==
    Cardinality(UNION {{<<d.job_id, d.vehicle_id, t>> : t \in d.t0..(d.t0 + d.n - 1)} : d \in S})

InfluxJobFull(w, job_id) ==
    IF w.conn = None THEN NotConnected(w)
    ELSE Queried(w, InfluxPoints({d \in w.view.dataset : d.job_id = job_id}))

\* ---- last_n_by_vehicle ----------------------------------------------
\* The dataset segments a vehicle's rows are found in: through the job
\* table (MSSQL, QuestDB) or through the vehicle_id column / tag.
VehicleRows(w, vehicle_id) ==
    IF w.backend \in {"timescaledb", "influxdb"}
    THEN {d \in w.view.dataset : d.vehicle_id = vehicle_id}
    ELSE {d \in w.view.dataset : d.job_id \in JobsOfVehicle(w.view, vehicle_id)}

\* Rows of segment g with timestamp >= t, and of a set of segments.
RowsFrom(g, t) == Max(0, g.t0 + g.n - Max(t, g.t0))
CountFrom(S, t) == SumN({[g |-> g, n |-> RowsFrom(g, t)] : g \in S})

\* The largest timestamp t in lo..hi from which on there are n rows.
RECURSIVE Cut(_, _, _, _)
Cut(S, n, lo, hi) ==
    IF lo >= hi THEN lo
    ELSE LET mid == (lo + hi + 1) \div 2 IN
         IF CountFrom(S, mid) >= n THEN Cut(S, n, mid, hi) ELSE Cut(S, n, lo, mid - 1)

\* SELECT TOP(n) ... ORDER BY timestamp DESC, id DESC: for each segment
\* the number of its latest rows that are among the n rows taken.
TopRows(S, n) ==
    IF n <= 0 THEN {}
    ELSE IF SumN(S) <= n THEN {[g |-> g, n |-> g.n] : g \in S}
    ELSE LET t == Cut(S, n, 0, MaxOf({g.t0 + g.n - 1 : g \in S}))
             need == n - CountFrom(S, t + 1)
             G == {g \in S : g.t0 <= t /\ t < g.t0 + g.n}
             taken == {g \in G : Cardinality({h \in G : h.id0 - h.t0 > g.id0 - g.t0}) < need} IN
         {[g |-> g, n |-> RowsFrom(g, t + 1) + (IF g \in taken THEN 1 ELSE 0)] : g \in S}

\* LAST_N_BY_VEHICLE_SQL of the narrow layout: the TOP(n) dataset rows of
\* the vehicle joined with their sensor_record rows.
NarrowLastN(w, vehicle_id, n) ==
    IF w.conn = None THEN NotConnected(w)
    ELSE Queried(w, SumN({[x |-> x, s |-> s,
                      n |-> Overlap(s.dataset_id0, s.n, x.g.id0 + x.g.n - x.n, x.n)] :
                        <<x, s>> \in TopRows(VehicleRows(w, vehicle_id), n)
                                       \X w.view.sensor_record}))

\* OFFSET 0 ROWS FETCH NEXT ? ROWS ONLY: SQL Server rejects a FETCH of
\* zero rows.
WideLastN(w, vehicle_id, n) ==
    IF w.conn = None THEN NotConnected(w)
    ELSE IF n <= 0 THEN QueryFailed(w)
    ELSE Queried(w, Min(n, SumN(VehicleRows(w, vehicle_id))))

\* ORDER BY timestamp DESC LIMIT n.
TimescaleLastN(w, vehicle_id, n) ==
    IF w.conn = None THEN NotConnected(w)
    ELSE Queried(w, Min(n, SumN(VehicleRows(w, vehicle_id))))

QuestLastN(w, vehicle_id, n) ==
    IF w.conn = None THEN NotConnected(w)
    ELSE Queried(w, Min(n, SumN(VehicleRows(w, vehicle_id))))

\* InfluxLastN without _require_query_api().
InfluxLastN_NoRequire(w, vehicle_id, n) ==
    Queried(w, Min(n, InfluxPoints(VehicleRows(w, vehicle_id))))

\* group(columns: []) |> top(n: n, columns: ["_time"]).
InfluxLastN(w, vehicle_id, n) ==
    IF w.conn = None THEN NotConnected(w)
    ELSE Queried(w, Min(n, InfluxPoints(VehicleRows(w, vehicle_id))))

\* ---- dashboard_speed_10m, dashboard_speed_10m_multi ------------------
\* Ten-minute buckets, in the seconds the timestamps are counted in.
WINDOW == 600

\* Segment g has a row in bucket b with start_ts <= timestamp < end_ts
\* (for the narrow layout: a row with a sensor_record row).
InBucket(w, g, b, start_ts, end_ts) ==
    LET lo == Max(Max(start_ts, b * WINDOW), g.t0)
        hi == Min(Min(end_ts, (b + 1) * WINDOW), g.t0 + g.n) IN
    /\ hi > lo
    /\ w.backend = "mssql_narrow" =>
           \E s \in w.view.sensor_record :
               Overlap(s.dataset_id0, s.n, g.id0 + lo - g.t0, hi - lo) > 0

\* GROUP BY bucket: the buckets that hold a row of the segments S.
Buckets(w, S, start_ts, end_ts) ==
    {b \in 0..MaxOf({(g.t0 + g.n - 1) \div WINDOW : g \in S}) :
        \E g \in S : InBucket(w, g, b, start_ts, end_ts)}

\* The SQL adapters group a vehicle's rows by bucket; aggregateWindow of
\* InfluxDB works on each series (job_id, vehicle_id) by itself.
VehicleBuckets(w, vehicle_id, start_ts, end_ts) ==
    LET S == VehicleRows(w, vehicle_id) IN
    IF w.backend = "influxdb"
    THEN SumN({[job_id |-> j,
                n |-> Cardinality(Buckets(w, {g \in S : g.job_id = j}, start_ts, end_ts))] :
                  j \in {g.job_id : g \in S}})
    ELSE Cardinality(Buckets(w, S, start_ts, end_ts))

dashboard_speed_10m(w, vehicle_id, start_ts, end_ts) ==
    IF w.conn = None THEN NotConnected(w)
    ELSE Queried(w, VehicleBuckets(w, vehicle_id, start_ts, end_ts))

\* GROUP BY bucket, vehicle_id over the vehicles of the list.
dashboard_speed_10m_multi(w, vehicle_ids, start_ts, end_ts) ==
    IF w.conn = None THEN NotConnected(w)
    ELSE Queried(w, SumN({[vehicle_id |-> v, n |-> VehicleBuckets(w, v, start_ts, end_ts)] :
                        v \in vehicle_ids}))

last_n_by_vehicle(w, vehicle_id, n) ==
    CASE w.backend = "mssql_narrow" -> NarrowLastN(w, vehicle_id, n)
      [] w.backend = "mssql_wide" -> WideLastN(w, vehicle_id, n)
      [] w.backend = "timescaledb" -> TimescaleLastN(w, vehicle_id, n)
      [] w.backend = "questdb" -> QuestLastN(w, vehicle_id, n)
      [] w.backend = "influxdb" -> InfluxLastN(w, vehicle_id, n)

\* ---- the adapter contract, by backend -------------------------------
create_new_vehicle(w, f) ==
    CASE w.backend = "mssql_narrow" -> NarrowCreateVehicle(w, f)
      [] w.backend = "mssql_wide" -> WideCreateVehicle(w, f)
      [] w.backend = "timescaledb" -> TimescaleCreateVehicle(w, f)
      [] w.backend = "questdb" -> QuestCreateVehicle(w, f)
      [] w.backend = "influxdb" -> InfluxCreateVehicle(w, f)

create_new_job(w, vehicle_id, f) ==
    CASE w.backend = "mssql_narrow" -> NarrowCreateJob(w, vehicle_id, f)
      [] w.backend = "mssql_wide" -> WideCreateJob(w, vehicle_id, f)
      [] w.backend = "timescaledb" -> TimescaleCreateJob(w, vehicle_id, f)
      [] w.backend = "questdb" -> QuestCreateJob(w, vehicle_id, f)
      [] w.backend = "influxdb" -> InfluxCreateJob(w, vehicle_id, f)

insert_batch(w, batch, f) ==
    CASE w.backend = "mssql_narrow" -> NarrowInsertBatch(w, batch, f)
      [] w.backend = "mssql_wide" -> WideInsertBatch(w, batch, f)
      [] w.backend = "timescaledb" -> TimescaleInsertBatch(w, batch, f)
      [] w.backend = "questdb" -> QuestInsertBatch(w, batch, f)
      [] w.backend = "influxdb" -> InfluxInsertBatch(w, batch, f)

clean_data(w, vehicle_id, job_id, f) ==
    CASE w.backend = "mssql_narrow" -> NarrowCleanData(w, vehicle_id, job_id, f)
      [] w.backend = "mssql_wide" -> WideCleanData(w, vehicle_id, job_id, f)
      [] w.backend = "timescaledb" -> TimescaleCleanData(w, vehicle_id, job_id, f)
      [] w.backend = "questdb" -> QuestCleanData(w, vehicle_id, job_id, f)
      [] w.backend = "influxdb" -> InfluxCleanData(w, vehicle_id, job_id, f)

job_full(w, job_id) ==
    CASE w.backend = "mssql_narrow" -> NarrowJobFull(w, job_id)
      [] w.backend = "mssql_wide" -> WideJobFull(w, job_id)
      [] w.backend = "timescaledb" -> TimescaleJobFull(w, job_id)
      [] w.backend = "questdb" -> QuestJobFull(w, job_id)
      [] w.backend = "influxdb" -> InfluxJobFull(w, job_id)

\* ---- the insert benchmark wrapper (insert_10k.py) -------------------
\* The driver calls of an operation that can raise (for the chunked
\* writers of insert_batch: the chunks of the largest batch tried).
DriverCalls(b, op) ==
    CASE op \in {"create_new_vehicle", "create_new_job"} ->
             (CASE b = "mssql_narrow" -> 3 [] b = "influxdb" -> 0 [] OTHER -> 2)
      [] op = "insert_batch" -> (IF b = "mssql_narrow" THEN 5 ELSE 2)
      [] op = "clean_data" ->
             (CASE b = "mssql_narrow" -> 5 [] b = "mssql_wide" -> 6
                [] b = "timescaledb" -> 4 [] b = "questdb" -> 0 [] b = "influxdb" -> 1)

\* A fault is the one adapter call of an invocation that raises: the
\* operation, for insert_batch the chunk k, and its driver call f. The
\* first exception ends the invocation, so one fault covers every run.
NoFault == [at |-> "none", k |-> 0, f |-> 0]
Faults(b) ==
    {NoFault}
    \cup {x \in [at : {"create_new_vehicle", "create_new_job", "clean_data"},
                 k : {0}, f : 1..6] : x.f <= DriverCalls(b, x.at)}
    \cup [at : {"insert_batch"}, k : {1, 2}, f : {DriverCalls(b, "insert_batch")}]
FaultAt(fault, op, k) == IF fault.at = op /\ fault.k = k THEN fault.f ELSE 0

\* The loop over range(0, len(batch_rows), BATCH_SIZE).
\* acc = [w, exc, row_count, dispatched].
RECURSIVE InsertLoop(_, _, _, _, _, _)
InsertLoop(acc, head, lens, i, off, fault) ==
    IF i > Len(lens) \/ acc.exc # "none" THEN acc
    ELSE LET chunk_batch == [job_id |-> head.job_id, vehicle_id |-> head.vehicle_id,
                             marker |-> head.marker, t0 |-> head.t0 + off, n |-> lens[i]]
             r == insert_batch(acc.w, chunk_batch, FaultAt(fault, "insert_batch", i)) IN
         InsertLoop([w |-> r.w, exc |-> r.exc,
                     row_count |-> IF r.exc = "none" THEN acc.row_count + r.ret
                                   ELSE acc.row_count,
                     dispatched |-> Append(acc.dispatched, lens[i])],
                    head, lens, i + 1, off + lens[i], fault)

\* The keywords run_insert_10k passes to InsertRow(...).
InsertRowKeywords == {"timestamp", "sensors"}

\* What one invocation did: x.vehicle_id / x.job_id are the identifiers it
\* created (NoId: not created), x.clean_calls the clean_data calls it made,
\* x.dispatched the chunks it handed to insert_batch, x.adapter_failed
\* whether an adapter call raised, x.marker the marker it built (NoMarker:
\* it ended before).
WrapperRes(w, e, ret, v, j, marker, cleans, disp, af) ==
    [w |-> w, exc |-> e, ret |-> ret, rollbacks |-> 0, transport |-> <<>>,
     x |-> [vehicle_id |-> v, job_id |-> j, marker |-> marker, clean_calls |-> cleans,
            dispatched |-> disp, adapter_failed |-> af]]

\* line 63: clean_data after the loop, reached only when nothing raised.
run_insert_10k_clean(w, head, lp, r4) ==
    LET cleans == <<[vehicle_id |-> head.vehicle_id, job_id |-> head.job_id]>> IN
    IF r4.exc # "none"
    THEN WrapperRes(r4.w, r4.exc, None, head.vehicle_id, head.job_id, head.marker,
                    cleans, lp.dispatched, TRUE)
    ELSE WrapperRes(r4.w, "none", BenchmarkRun("insert_10k", w.backend, lp.row_count),
                    head.vehicle_id, head.job_id, head.marker, cleans, lp.dispatched, FALSE)

\* lines 48-59: the marker, then the chunk loop.
run_insert_10k_loop(w, head, lp, fault) ==
    IF lp.exc # "none"
    THEN WrapperRes(lp.w, lp.exc, None, head.vehicle_id, head.job_id, head.marker,
                    <<>>, lp.dispatched, TRUE)
    ELSE run_insert_10k_clean(w, head, lp,
             clean_data(lp.w, head.vehicle_id, head.job_id, FaultAt(fault, "clean_data", 0)))

\* lines 42-45: the rows are built with InsertRow(timestamp=, sensors=).
run_insert_10k_rows(w, head, w2, rows, fault) ==
    IF rows >= 1 /\ InsertRowKeywords # InsertRowFields
    THEN WrapperRes(w2, "TypeError", None, head.vehicle_id, head.job_id, NoMarker,
                    <<>>, <<>>, FALSE)
    ELSE run_insert_10k_loop(w, head,
             InsertLoop([w |-> w2, exc |-> "none", row_count |-> 0, dispatched |-> <<>>],
                        head, ChunkLens(rows, BATCH_SIZE), 1, 0, fault),
             fault)

\* line 39: create_new_job for the vehicle just created.
run_insert_10k_job(w, vehicle_id, r2, start_ts, rows, fault) ==
    IF r2.exc # "none"
    THEN WrapperRes(r2.w, r2.exc, None, vehicle_id, NoId, NoMarker, <<>>, <<>>, TRUE)
    ELSE run_insert_10k_rows(w,
             [job_id |-> r2.ret, vehicle_id |-> vehicle_id, t0 |-> start_ts,
              marker |-> <<"insert", r2.ret, vehicle_id, start_ts>>],
             r2.w, rows, fault)

\* line 38: create_new_vehicle.
run_insert_10k_vehicle(w, r1, start_ts, rows, fault) ==
    IF r1.exc # "none"
    THEN WrapperRes(r1.w, r1.exc, None, NoId, NoId, NoMarker, <<>>, <<>>, TRUE)
    ELSE run_insert_10k_job(w, r1.ret,
             create_new_job(r1.w, r1.ret, FaultAt(fault, "create_new_job", 0)),
             start_ts, rows, fault)

run_insert_10k(w, start_ts, rows, fault) ==
    run_insert_10k_vehicle(w, create_new_vehicle(w, FaultAt(fault, "create_new_vehicle", 0)),
                           start_ts, rows, fault)

\* =====================================================================
\* SpecDb: a serial client of one adapter instance
\* =====================================================================
MaxOps == 3

T0s == {0, 599}
Markers == {<<"m1">>, <<"m2">>}
BatchLens == {0, 1, BATCH_SIZE, BATCH_SIZE + 1}
RowsArgs == {0, 1, 10000}

\* Data the backend holds before the client starts.
SeedStore(b) ==
    [vehicle |-> IF b = "influxdb" THEN {} ELSE {1},
     job |-> IF b = "influxdb" THEN {} ELSE {[id |-> 1, vehicle_id |-> 1]},
     dataset |-> {[sid |-> 1, id0 |-> IF b \in {"mssql_narrow", "mssql_wide"} THEN 1 ELSE NoId,
                   job_id |-> 1,
                   vehicle_id |-> IF b \in {"timescaledb", "influxdb"} THEN 1 ELSE NoId,
                   t0 |-> 0, n |-> 2,
                   note |-> IF b \in Transactional THEN <<"old">> ELSE NoMarker]},
     sensor_record |-> IF b = "mssql_narrow"
                       THEN {[sid |-> 1, id0 |-> 1, dataset_id0 |-> 1, n |-> 2]}
                       ELSE {}]

SeqAfter(st) ==
    [vehicle |-> MaxOf(st.vehicle) + 1, job |-> MaxRowId(st.job) + 1,
     dataset |-> 3, uuid |-> 2, sid |-> 2, opened |-> 0, released |-> 0]

World(b, st) == [backend |-> b, conn |-> None, committed |-> st, view |-> st, seq |-> SeqAfter(st)]

NoCall == [op |-> "none", a |-> <<>>, exc |-> "none", ret |-> None, rollbacks |-> 0,
           transport |-> <<>>, sid0 |-> 0, view0 |-> EmptyStore,
           committed0 |-> EmptyStore, conn0 |-> None, seq0 |-> SeqAfter(EmptyStore),
           x |-> <<>>, prev |-> NoId]

\* prev: the row_count the call before returned, when that call was the
\* same last_n_by_vehicle(v, n) as this one (NoId otherwise).
Call(op, a, r, x) ==
    [op |-> op, a |-> a, exc |-> r.exc, ret |-> r.ret, rollbacks |-> r.rollbacks,
     transport |-> r.transport, sid0 |-> db.seq.sid, view0 |-> db.view,
     committed0 |-> db.committed, conn0 |-> db.conn, seq0 |-> db.seq, x |-> x,
     prev |-> IF op = "last_n_by_vehicle" /\ last.op = op /\ last.exc = "none" /\ last.a = a
              THEN last.ret ELSE NoId]

\* The identifiers create_new_vehicle and create_new_job have returned to
\* the client and the markers run_insert_10k has built, in call order.
NoneReturned == [vehicle |-> <<>>, job |-> <<>>, marker |-> <<>>]

DInit ==
    /\ \E b \in Backends : \E st \in {EmptyStore, SeedStore(b)} :
         /\ db = World(b, st)
         /\ client = [vehicles |-> st.vehicle \cup {d.vehicle_id : d \in
                                     {x \in st.dataset : x.vehicle_id # NoId}},
                      pairs |-> {<<d.job_id, 1>> : d \in st.dataset},
                      returned |-> NoneReturned,
                      ops |-> 0]
    /\ last = NoCall

Step(c) == [c EXCEPT !.ops = @ + 1]

DbConnect ==
    /\ client.ops < MaxOps
    /\ UNCHANGED hvars
    /\ \E ok \in BOOLEAN :
         LET r == connect(db, ok) IN
         /\ db' = r.w
         /\ last' = Call("connect", <<>>, r, <<>>)
    /\ client' = Step(client)

DbClose ==
    /\ client.ops < MaxOps
    /\ UNCHANGED hvars
    /\ \E driver_raises \in BOOLEAN :
         LET r == close(db, driver_raises) IN
         /\ db' = r.w
         /\ last' = Call("close", <<>>, r, <<>>)
    /\ client' = Step(client)

DbCreateVehicle ==
    /\ client.ops < MaxOps
    /\ UNCHANGED hvars
    /\ \E f \in 0..DriverCalls(db.backend, "create_new_vehicle") :
         LET r == create_new_vehicle(db, f) IN
         /\ db' = r.w
         /\ last' = Call("create_new_vehicle", <<>>, r, <<>>)
         /\ client' = [Step(client) EXCEPT
                          !.vehicles = IF r.exc = "none" THEN @ \cup {r.ret} ELSE @,
                          !.returned.vehicle = IF r.exc = "none" THEN Append(@, r.ret) ELSE @]

DbCreateJob ==
    /\ client.ops < MaxOps
    /\ UNCHANGED hvars
    /\ \E v \in client.vehicles, f \in 0..DriverCalls(db.backend, "create_new_job") :
         LET r == create_new_job(db, v, f) IN
         /\ db' = r.w
         /\ last' = Call("create_new_job", [vehicle_id |-> v], r, <<>>)
         /\ client' = [Step(client) EXCEPT
                          !.pairs = IF r.exc = "none" THEN @ \cup {<<r.ret, v>>} ELSE @,
                          !.returned.job = IF r.exc = "none" THEN Append(@, r.ret) ELSE @]

DbInsertBatch ==
    /\ client.ops < MaxOps
    /\ UNCHANGED hvars
    /\ \E p \in client.pairs, n \in BatchLens, t \in T0s, m \in Markers,
          f \in 0..DriverCalls(db.backend, "insert_batch") :
         LET batch == [job_id |-> p[1], vehicle_id |-> p[2], marker |-> m, t0 |-> t, n |-> n]
             r == insert_batch(db, batch, f) IN
         /\ db' = r.w
         /\ last' = Call("insert_batch", batch, r, <<>>)
    /\ client' = Step(client)

DbCleanData ==
    /\ client.ops < MaxOps
    /\ UNCHANGED hvars
    /\ \E p \in client.pairs, f \in 0..DriverCalls(db.backend, "clean_data") :
         LET r == clean_data(db, p[2], p[1], f) IN
         /\ db' = r.w
         /\ last' = Call("clean_data", [vehicle_id |-> p[2], job_id |-> p[1]], r, <<>>)
         /\ client' = [Step(client) EXCEPT
                          !.pairs = IF r.exc = "none" THEN @ \ {p} ELSE @,
                          !.vehicles = IF r.exc = "none" THEN @ \ {p[2]} ELSE @]

\* The jobs and vehicles the client asks about: those it holds and one
\* it may never have created.
KnownJobs == {p[1] : p \in client.pairs} \cup {1}
KnownVehicles == client.vehicles \cup {1}
LastNs == {0, 1, 3, BATCH_SIZE + 100}
Windows == {<<0, WINDOW>>, <<WINDOW - 1, 2 * WINDOW>>}

\* A read may raise a backend error; it changes nothing.
DbJobFull ==
    /\ client.ops < MaxOps
    /\ UNCHANGED hvars
    /\ \E j \in KnownJobs, raises \in BOOLEAN :
         LET r == ReadOutcome(job_full(db, j), raises) IN
         /\ db' = r.w
         /\ last' = Call("job_full", [job_id |-> j], r, <<>>)
    /\ client' = Step(client)

DbLastNByVehicle ==
    /\ client.ops < MaxOps
    /\ UNCHANGED hvars
    /\ \E v \in KnownVehicles, n \in LastNs, raises \in BOOLEAN :
         LET r == ReadOutcome(last_n_by_vehicle(db, v, n), raises) IN
         /\ db' = r.w
         /\ last' = Call("last_n_by_vehicle", [vehicle_id |-> v, n |-> n], r, <<>>)
    /\ client' = Step(client)

DbDashboardSpeed10m ==
    /\ client.ops < MaxOps
    /\ UNCHANGED hvars
    /\ \E v \in KnownVehicles, win \in Windows, raises \in BOOLEAN :
         LET r == ReadOutcome(dashboard_speed_10m(db, v, win[1], win[2]), raises) IN
         /\ db' = r.w
         /\ last' = Call("dashboard_speed_10m",
                         [vehicle_id |-> v, start_ts |-> win[1], end_ts |-> win[2]], r, <<>>)
    /\ client' = Step(client)

DbDashboardSpeed10mMulti ==
    /\ client.ops < MaxOps
    /\ UNCHANGED hvars
    /\ \E vs \in (SUBSET KnownVehicles) \ {{}}, win \in Windows, raises \in BOOLEAN :
         LET r == ReadOutcome(dashboard_speed_10m_multi(db, vs, win[1], win[2]), raises) IN
         /\ db' = r.w
         /\ last' = Call("dashboard_speed_10m_multi",
                         [vehicle_ids |-> vs, start_ts |-> win[1], end_ts |-> win[2]], r, <<>>)
    /\ client' = Step(client)

\* What the wrapper obtained from the adapter and built, in call order.
NoteReturned(c, x) ==
    [c EXCEPT !.returned.vehicle = IF x.vehicle_id # NoId THEN Append(@, x.vehicle_id) ELSE @,
              !.returned.job = IF x.job_id # NoId THEN Append(@, x.job_id) ELSE @,
              !.returned.marker = IF x.marker # NoMarker THEN Append(@, x.marker) ELSE @]

DbRunInsert10k ==
    /\ client.ops < MaxOps
    /\ UNCHANGED hvars
    /\ \E t \in T0s, rows \in RowsArgs, fault \in Faults(db.backend) :
         LET r == run_insert_10k(db, t, rows, fault) IN
         /\ db' = r.w
         /\ last' = Call("run_insert_10k", [start_ts |-> t, rows |-> rows], r, r.x)
         /\ client' = NoteReturned(Step(client), r.x)

DNext ==
    \/ DbConnect
    \/ DbClose
    \/ DbCreateVehicle
    \/ DbCreateJob
    \/ DbInsertBatch
    \/ DbCleanData
    \/ DbJobFull
    \/ DbLastNByVehicle
    \/ DbDashboardSpeed10m
    \/ DbDashboardSpeed10mMulti
    \/ DbRunInsert10k

\* =====================================================================
\* Specifications
\* =====================================================================
vars == <<hvars, dvars>>

DIdle ==
    /\ db = World("mssql_narrow", EmptyStore)
    /\ last = NoCall
    /\ client = [vehicles |-> {}, pairs |-> {}, returned |-> NoneReturned, ops |-> 0]

HIdle ==
    /\ args = [db |-> "mssql_narrow", benchmark |-> "job_full", job_id |-> "3137",
               vehicle_id |-> None, start_ts |-> None, end_ts |-> None,
               runs |-> 0, warmup |-> 0]
    /\ pc = "idle"
    /\ warm_i = 0
    /\ run_i = 0
    /\ results_file = [exists |-> FALSE, rows |-> <<>>]
    /\ h_conn = None
    /\ exc = "none"
    /\ hist = NoHist

Init == HInit /\ DIdle
Next == HNext
Spec == Init /\ [][Next]_vars

InitDb == DInit /\ HIdle
NextDb == DNext
SpecDb == InitDb /\ [][NextDb]_vars

\* =====================================================================
\* SpecSink: a sequence of invocations of main() on one output path
\* =====================================================================
MaxInvocations == 3

\* The command lines of the invocations.
SinkArgs ==
    {a \in Args : /\ a.db = "questdb" /\ a.benchmark \in {"job_full", "last_n_by_vehicle"}
                  /\ a.start_ts = None /\ a.end_ts = None
                  /\ a.runs \in 0..1 /\ a.warmup \in 0..1}

\* The first invocation finds no file at the output path.
SInit ==
    /\ args \in SinkArgs
    /\ pc = "ensure_results_file"
    /\ warm_i = 0
    /\ run_i = 0
    /\ results_file = [exists |-> FALSE, rows |-> <<>>]
    /\ h_conn = None
    /\ exc = "none"
    /\ hist = NoHist

\* The process has ended; the harness is started again with the same --out.
MainInvokeAgain ==
    /\ pc = "done"
    /\ hist.inv < MaxInvocations
    /\ args' \in SinkArgs
    /\ pc' = "ensure_results_file"
    /\ warm_i' = 0
    /\ run_i' = 0
    /\ h_conn' = None
    /\ exc' = "none"
    /\ hist' = [NoHist EXCEPT !.inv = hist.inv + 1]
    /\ UNCHANGED <<results_file, db, last, client>>

SNext ==
    \/ MainEnsureResultsFile
    \/ MainConnect
    \/ MainWarmup
    \/ MainWarmupDone
    \/ MainRun
    \/ MainRunsDone
    \/ MainFinally
    \/ MainInvokeAgain

InitSink == SInit /\ DIdle
NextSink == SNext
SpecSink == InitSink /\ [][NextSink]_vars

\* =====================================================================
\* SpecRead: the read operations over bounded preloaded stores
\* =====================================================================
\* The benchmark databases are loaded before the harness runs. A loaded
\* store holds vehicles 1 and 2, jobs 1 and 2 of vehicle 1 and job 3 of
\* vehicle 2, and any of four runs of samples (one per second):
\*   job 1 at 0..1, job 2 at 1, job 1 at 599..600, job 3 at 600.
LoadedJobs == {[id |-> 1, vehicle_id |-> 1], [id |-> 2, vehicle_id |-> 1],
               [id |-> 3, vehicle_id |-> 2]}
LoadedRuns ==
    {[sid |-> 1, id0 |-> 1, job_id |-> 1, vehicle_id |-> 1, t0 |-> 0, n |-> 2],
     [sid |-> 2, id0 |-> 3, job_id |-> 2, vehicle_id |-> 1, t0 |-> 1, n |-> 1],
     [sid |-> 3, id0 |-> 4, job_id |-> 1, vehicle_id |-> 1, t0 |-> WINDOW - 1, n |-> 2],
     [sid |-> 4, id0 |-> 6, job_id |-> 3, vehicle_id |-> 2, t0 |-> WINDOW, n |-> 1]}

\* The runs S as backend b stores them: integer row ids on MSSQL, the
\* vehicle on the row where the layout has the column or tag, one speed
\* sensor_record per dataset row in the narrow layout, no vehicle and job
\* tables in InfluxDB.
LoadedStore(b, S) ==
    [vehicle |-> IF b = "influxdb" THEN {} ELSE {1, 2},
     job |-> IF b = "influxdb" THEN {} ELSE LoadedJobs,
     dataset |-> {[sid |-> g.sid,
                   id0 |-> IF b \in {"mssql_narrow", "mssql_wide"} THEN g.id0 ELSE NoId,
                   job_id |-> g.job_id,
                   vehicle_id |-> IF b \in {"timescaledb", "influxdb"} THEN g.vehicle_id
                                  ELSE NoId,
                   t0 |-> g.t0, n |-> g.n,
                   note |-> IF b \in Transactional THEN <<"old">> ELSE NoMarker] : g \in S},
     sensor_record |-> IF b = "mssql_narrow"
                       THEN {[sid |-> g.sid, id0 |-> g.id0, dataset_id0 |-> g.id0,
                              n |-> g.n] : g \in S}
                       ELSE {}]

RInit ==
    /\ \E b \in Backends, S \in SUBSET LoadedRuns :
         db = [World(b, LoadedStore(b, S)) EXCEPT !.conn = "open", !.seq.opened = 1]
    /\ client = [vehicles |-> {1, 2}, pairs |-> {<<j.id, j.vehicle_id>> : j \in LoadedJobs},
                 returned |-> NoneReturned, ops |-> 0]
    /\ last = NoCall

RNext ==
    \/ DbJobFull
    \/ DbLastNByVehicle
    \/ DbDashboardSpeed10m
    \/ DbDashboardSpeed10mMulti

InitRead == RInit /\ HIdle
NextRead == RNext
SpecRead == InitRead /\ [][NextRead]_vars

\* =====================================================================
\* SpecWrite: insert_batch and clean_data on one connection to a loaded
\* store
\* =====================================================================
\* The client has connected (its first call); the store holds all the
\* loaded runs or none of them.
WInit ==
    /\ \E b \in Backends, S \in {LoadedRuns, {}} :
         db = [World(b, LoadedStore(b, S)) EXCEPT
                  !.conn = "open", !.seq.opened = 1,
                  !.seq.sid = MaxOf({g.sid : g \in LoadedRuns}) + 1]
    /\ client = [vehicles |-> {1, 2}, pairs |-> {<<j.id, j.vehicle_id>> : j \in LoadedJobs},
                 returned |-> NoneReturned, ops |-> 1]
    /\ last = NoCall

WNext ==
    \/ DbInsertBatch
    \/ DbCleanData

InitWrite == WInit /\ HIdle
NextWrite == WNext
SpecWrite == InitWrite /\ [][NextWrite]_vars

\* ---------------------------------------------------------------------
\* Harness properties
\* ---------------------------------------------------------------------
\* The rows the invocation has added to the sink, and their run_idx column.
GainedRows == SubSeq(results_file.rows, Len(hist.base) + 1, Len(results_file.rows))
GainedIdx == [k \in 1..Len(GainedRows) |-> GainedRows[k].run_idx]
UpTo(n) == [k \in 1..Max(0, n) |-> k]
BaseKept ==
    /\ Len(results_file.rows) >= Len(hist.base)
    /\ SubSeq(results_file.rows, 1, Len(hist.base)) = hist.base

\* C1: once db.connect() has returned, db.close() is called exactly once
\* before main() terminates (all iterations succeeded, a warmup iteration
\* raised, or a measured iteration raised), never more than once, and never
\* without a connect.
C1_CloseExactlyOnce ==
    /\ hist.closes <= hist.connects
    /\ hist.connects <= 1
    /\ (pc = "done" /\ hist.connects = 1) => hist.closes = 1
    /\ (pc # "done" /\ pc # "ensure_results_file" /\ pc # "connect") => hist.closes = 0

C1_Witness ==
    /\ pc = "done"
    /\ hist.connects = 1
    /\ hist.failed = "measured"
    /\ hist.closes = 1

\* C2: when every iteration of an invocation with warmup count w and run
\* count n succeeds, the sink has gained exactly the rows with run_idx
\* 1, 2, ..., n in that order (none when n <= 0), the max(0, w) warmup
\* iterations were run and produced no row.
C2_RunIdxContiguous ==
    (pc = "done" /\ hist.connects = 1 /\ hist.failed = None) =>
        /\ BaseKept
        /\ GainedIdx = UpTo(args.runs)
        /\ hist.selected = Max(0, args.warmup) + Max(0, args.runs)

C2_Witness ==
    /\ pc = "done"
    /\ hist.failed = None
    /\ args.warmup >= 1
    /\ args.runs = 2
    /\ hist.selected = args.warmup + 2
    /\ Len(GainedRows) = 2

\* C3: when the k-th measured iteration (or a warmup iteration) raises, no
\* further wrapper call is made in the invocation and the sink has gained
\* exactly the rows of the measured iterations 1..k-1 (none for a warmup
\* failure): no row is written for the failed iteration.
C3_FailureStopsIterations ==
    hist.failed # None =>
        /\ hist.calls_after_failure = 0
        /\ BaseKept
        /\ GainedIdx = UpTo(IF hist.failed = "measured" THEN hist.failed_idx - 1 ELSE 0)
        /\ pc \in {"finally", "done"}

C3_Witness ==
    /\ pc = "done"
    /\ hist.failed = "measured"
    /\ hist.failed_idx = 2
    /\ Len(GainedRows) = 1

\* =====================================================================
\* Properties of the adapters and of the insert wrapper (SpecDb)
\* =====================================================================
\* The rows the last call wrote that are persisted / visible on the
\* connection.
NewDataset == {d \in db.committed.dataset : d.sid >= last.sid0}
NewSensorRecords == {s \in db.committed.sensor_record : s.sid >= last.sid0}
NewInView ==
    {d \in db.view.dataset : d.sid >= last.sid0}
    \cup {s \in db.view.sensor_record : s.sid >= last.sid0}

\* C4: on every adapter, after a successful clean_data(vehicle_id, job_id),
\* job_full(job_id) returns row_count = 0, whatever rows had been inserted
\* for that job before.
C4_CleanDataLeavesNoRows ==
    (last.op = "clean_data" /\ last.exc = "none" /\ db.conn # None) =>
        LET q == job_full(db, last.a.job_id) IN
        /\ q.exc = "none"
        /\ q.ret = 0

\* C5: every invocation of the insert wrapper on a connected adapter that
\* has created a vehicle and a job calls clean_data on exactly that vehicle
\* and job before it ends, on every exit path; no vehicle, job or row it
\* created outlives it.
C5_WrapperAlwaysCleans ==
    (/\ last.op = "run_insert_10k"
     /\ db.conn # None
     /\ last.x.vehicle_id # NoId
     /\ last.x.job_id # NoId) =>
        /\ last.x.clean_calls =
               <<[vehicle_id |-> last.x.vehicle_id, job_id |-> last.x.job_id]>>
        /\ last.x.vehicle_id \notin db.committed.vehicle
        /\ \A j \in db.committed.job : j.id # last.x.job_id
        /\ \A d \in db.committed.dataset : d.job_id # last.x.job_id

\* C6: for any row count N >= 0 the insert pipeline (connected, no adapter
\* call failing) dispatches exactly ceil(N/500) chunks, each of at most 500 rows
\* and each but the last of exactly 500, that add up to the N rows, and
\* returns row_count = N.
C6_PipelineChunks ==
    (last.op = "run_insert_10k" /\ db.conn # None /\ ~last.x.adapter_failed) =>
        LET N == Max(0, last.a.rows)
            c == last.x.dispatched IN
        /\ Len(c) = (N + BATCH_SIZE - 1) \div BATCH_SIZE
        /\ \A i \in 1..Len(c) : c[i] <= BATCH_SIZE /\ (i < Len(c) => c[i] = BATCH_SIZE)
        /\ SumSeq(c) = N
        /\ last.exc = "none"
        /\ last.ret.row_count = N

\* C7: on every adapter a successful insert_batch(batch) persists every row
\* of batch.rows (for the narrow layout with its sensor_record row) and
\* returns row_count = len(batch.rows); an empty batch returns 0 and
\* writes nothing.
C7_InsertBatchPersistsAll ==
    (last.op = "insert_batch" /\ last.exc = "none") =>
        /\ last.ret = last.a.n
        /\ \A t \in last.a.t0..(last.a.t0 + last.a.n - 1) :
               \E d \in NewDataset :
                   /\ d.job_id = last.a.job_id
                   /\ t \in d.t0..(d.t0 + d.n - 1)
        /\ db.backend = "mssql_narrow" =>
               \A d \in NewDataset :
                   SumN({[s |-> s, n |-> Overlap(s.dataset_id0, s.n, d.id0, d.n)] :
                            s \in NewSensorRecords}) = d.n
        /\ last.a.n = 0 =>
               /\ last.transport = <<>>
               /\ db.committed = last.committed0
               /\ db.view = last.view0

C7_Witness ==
    /\ last.op = "insert_batch"
    /\ last.exc = "none"
    /\ last.a.n > BATCH_SIZE
    /\ last.ret = last.a.n
    /\ SumN(NewDataset) = last.a.n

\* C8: on every adapter every row persisted by insert_batch(batch) carries
\* batch.marker.
C8_RowsCarryMarker ==
    last.op = "insert_batch" => \A d \in NewDataset : d.note = last.a.marker

C10_EarlierChunksSurvive ==
    (last.op = "insert_batch" /\ last.exc # "none") =>
        /\ last.view0.dataset \subseteq db.committed.dataset
        /\ last.view0.sensor_record \subseteq db.committed.sensor_record

C10_Witness ==
    /\ last.op = "insert_batch"
    /\ last.exc = "BackendError"
    /\ last.rollbacks = 1
    /\ \E d \in last.view0.dataset :
           /\ d.note \in Markers
           /\ d.job_id = last.a.job_id
           /\ d \in db.committed.dataset

\* C11: when chunk k of an insert fails, a row_count is returned that
\* equals the rows of the chunks committed before the failure, and the
\* error is raised to the caller.
C11_PartialRowCountReported ==
    (last.op = "insert_batch" /\ last.exc = "BackendError" /\ last.transport # <<>>) =>
        /\ last.ret # None
        /\ last.ret = SumN(NewDataset)


\* C12: when create_new_vehicle, create_new_job or clean_data fails with a
\* backend error on a transactional backend, the operation's partial work
\* is rolled back: it has committed nothing, and nothing of it is left
\* pending on the connection for a later commit to persist.
C12_FailedOpLeavesNothingPending ==
    (/\ db.backend \in Transactional
     /\ last.op \in {"create_new_vehicle", "create_new_job", "clean_data"}
     /\ last.exc = "BackendError") =>
        /\ db.committed = last.committed0
        /\ db.view = db.committed

ReadOps == {"job_full", "last_n_by_vehicle", "dashboard_speed_10m", "dashboard_speed_10m_multi"}

\* C13: on every adapter each of the four read operations, called while
\* the adapter is not connected (never connected, or closed again), raises
\* the precondition error and sends nothing to the backend.
C13_ReadsRequireConnection ==
    (last.op \in ReadOps /\ last.conn0 = None) =>
        /\ last.exc = "RuntimeError"
        /\ last.transport = <<>>
        /\ db.view = last.view0 /\ db.committed = last.committed0 /\ db.conn = None

\* A read on an adapter that was connected and closed again.
C13_Witness ==
    /\ last.op \in ReadOps /\ last.conn0 = None
    /\ db.seq.released > 0
    /\ last.exc = "RuntimeError"

WriteOps == {"insert_batch", "create_new_vehicle", "create_new_job", "clean_data"}

\* C14: on every adapter each write-path operation, called while the
\* adapter is not connected, raises the precondition error (so it returns
\* neither an identifier nor a row count) and writes nothing to the backend.
C14_WritesRequireConnection ==
    (last.op \in WriteOps /\ last.conn0 = None) =>
        /\ last.exc = "RuntimeError"
        /\ last.transport = <<>>
        /\ db.view = last.view0 /\ db.committed = last.committed0

\* The adapter state is what it was before the last call.
AdapterUntouched ==
    /\ db.conn = last.conn0 /\ db.seq = last.seq0
    /\ db.view = last.view0 /\ db.committed = last.committed0

\* C15: connect() on a connected adapter and close() on an adapter that
\* is not connected return normally and change nothing, no handle is
\* opened or released by them; the adapter holds one handle when it is
\* connected and none when it is not.
C15_ConnectCloseIdempotent ==
    /\ (last.op = "connect" /\ last.conn0 # None) => (last.exc = "none" /\ AdapterUntouched)
    /\ (last.op = "close" /\ last.conn0 = None) => (last.exc = "none" /\ AdapterUntouched)
    /\ db.seq.opened - db.seq.released = (IF db.conn # None THEN 1 ELSE 0)

\* connect() called a second time on a connected adapter.
C15_Witness ==
    /\ last.op = "connect" /\ last.conn0 # None
    /\ db.conn # None /\ db.seq.opened = 1 /\ db.seq.released = 0

\* C16: after close() the adapter is not connected, also when the driver's
\* close raised and also when an earlier operation had failed and left
\* work pending on the connection.
C16_CloseClearsHandle ==
    last.op = "close" => db.conn = None

\* close() on a connected adapter whose driver close raises, after a
\* failed operation had left uncommitted work on the connection.
C16_Witness ==
    /\ last.op = "close" /\ last.conn0 # None
    /\ last.exc = "BackendError"
    /\ last.view0 # last.committed0
    /\ db.conn = None

Distinct(s) == \A i, j \in 1..Len(s) : i < j => s[i] # s[j]
StrictlyIncreasing(s) == \A i, j \in 1..Len(s) : i < j => s[i] < s[j]

\* C17: over any sequence of create_new_vehicle, create_new_job and
\* clean_data calls on one backend, each identifier create_new_vehicle
\* (create_new_job) returns differs from all it returned before, and on the
\* relational backends the returned integers are strictly increasing.
C17_IdentifiersFresh ==
    /\ Distinct(client.returned.vehicle)
    /\ Distinct(client.returned.job)
    /\ db.backend \in Transactional =>
           /\ StrictlyIncreasing(client.returned.vehicle)
           /\ StrictlyIncreasing(client.returned.job)

\* C18: no two invocations of run_insert_10k against the same backend use
\* the same marker, also when they are given the same start timestamp.
C18_MarkersUnique == Distinct(client.returned.marker)

\* The last call inserted N > 0 rows, N a multiple of the chunk size, for
\* a job that create_new_job returned to this client, on a connected
\* adapter; nothing has been cleaned up since.
InsertedForNewJob ==
    /\ last.op = "insert_batch" /\ last.exc = "none"
    /\ db.conn # None
    /\ last.a.n > 0 /\ last.a.n % BATCH_SIZE = 0
    /\ \E i \in 1..Len(client.returned.job) : client.returned.job[i] = last.a.job_id

\* C19: on every backend, after N rows (N a multiple of 500) have been
\* inserted for a newly created job and before any cleanup, job_full on
\* that job returns a row_count of at least N.
C19_JobFullSeesInsertedRows ==
    InsertedForNewJob =>
        /\ job_full(db, last.a.job_id).exc = "none"
        /\ job_full(db, last.a.job_id).ret >= last.a.n

\* 500 rows inserted for a job created by this client, all found by job_full.
C19_Witness ==
    /\ InsertedForNewJob
    /\ last.ret = BATCH_SIZE
    /\ job_full(db, last.a.job_id).ret >= BATCH_SIZE

\* The rows available for a vehicle: its samples in the store.
Available(w, vehicle_id) ==
    IF w.backend = "influxdb" THEN InfluxPoints(VehicleRows(w, vehicle_id))
    ELSE SumN(VehicleRows(w, vehicle_id))

\* C20: on every backend, for every vehicle v and every n >= 0,
\* last_n_by_vehicle(v, n) on a connected adapter returns
\* row_count = min(n, rows available for v).
C20_LastNReturnsMin ==
    db.conn # None =>
        \A v \in KnownVehicles, n \in LastNs :
            /\ last_n_by_vehicle(db, v, n).exc = "none"
            /\ last_n_by_vehicle(db, v, n).ret = Min(n, Available(db, v))

\* C21: the four read operations change neither the persisted data nor
\* the adapter's connection state, and a last_n_by_vehicle(v, n) that
\* directly follows the same call returns the same row_count.
C21_ReadsChangeNothing ==
    /\ last.op \in ReadOps => AdapterUntouched
    /\ (last.op = "last_n_by_vehicle" /\ last.exc = "none" /\ last.prev # NoId) =>
           last.ret = last.prev

\* The second of two equal last_n_by_vehicle calls, both returning rows.
C21_Witness ==
    /\ last.op = "last_n_by_vehicle" /\ last.exc = "none"
    /\ last.prev # NoId /\ last.ret > 0
    /\ AdapterUntouched

\* The seconds at which vehicle v has a speed sample (in the narrow
\* layout: a dataset row with a sensor_record row), and the ten-minute
\* windows holding one with start_ts <= timestamp < end_ts.
SpeedSampleTimes(w, v) ==
    UNION {{t \in g.t0..(g.t0 + g.n - 1) :
              w.backend = "mssql_narrow" =>
                  \E r \in w.view.sensor_record :
                      /\ r.dataset_id0 <= g.id0 + (t - g.t0)
                      /\ g.id0 + (t - g.t0) < r.dataset_id0 + r.n} : g \in VehicleRows(w, v)}
OccupiedWindows(w, v, start_ts, end_ts) ==
    {t \div WINDOW : t \in {u \in SpeedSampleTimes(w, v) : start_ts <= u /\ u < end_ts}}

\* C22: on every backend dashboard_speed_10m(vehicle, start, end) returns
\* as row_count the number of ten-minute windows that hold a speed sample
\* of the vehicle with start <= timestamp < end.
C22_DashboardCountsWindows ==
    (last.op = "dashboard_speed_10m" /\ last.exc = "none") =>
        last.ret = Cardinality(OccupiedWindows(db, last.a.vehicle_id,
                                               last.a.start_ts, last.a.end_ts))

\* C23: on every backend dashboard_speed_10m_multi(vehicle_ids, start, end)
\* returns as row_count the number of (window, vehicle) pairs, over the
\* listed vehicles, with a speed sample in [start, end); samples of several
\* jobs of one vehicle in one window count once.
C23_MultiCountsWindowVehiclePairs ==
    (last.op = "dashboard_speed_10m_multi" /\ last.exc = "none") =>
        last.ret = Cardinality(UNION {{<<b, v>> : b \in OccupiedWindows(db, v,
                                           last.a.start_ts, last.a.end_ts)} :
                                      v \in last.a.vehicle_ids})

\* C24: every benchmark wrapper makes exactly one adapter call between
\* starting and stopping its timer. For run_insert_10k the timer is started
\* before the chunk loop and stopped after it, so the calls inside the
\* timed interval are the chunks handed to insert_batch.
C24_OneTimedAdapterCall ==
    (last.op = "run_insert_10k" /\ last.exc = "none") => Len(last.x.dispatched) = 1

\* The selected benchmark lacks a parameter it requires.
MissingParameter ==
    \/ args.benchmark = "last_n_by_vehicle" /\ args.vehicle_id = None
    \/ /\ args.benchmark = "dashboard_speed_10m"
       /\ (args.vehicle_id = None \/ args.start_ts = None \/ args.end_ts = None)

\* C25: when the selected benchmark is invoked without a parameter it
\* requires, its first invocation raises the configuration error
\* (ValueError) without any adapter query having been called, no row is
\* appended, the adapter is still closed, and main() ends with an
\* exception (a non-zero exit status).
C25_MissingParameterFails ==
    (MissingParameter /\ hist.selected >= 1) =>
        /\ hist.selected = 1
        /\ hist.failed # None
        /\ hist.adapter_calls = 0
        /\ BaseKept /\ Len(GainedRows) = 0
        /\ pc \in {"finally", "done"}
        /\ pc = "finally" => exc = "ValueError"
        /\ pc = "done" => (hist.closes = 1 /\ h_conn = None /\ exc # "none")

\* dashboard_speed_10m without --start-ts, as a measured iteration: main()
\* has ended with the ValueError, after closing the adapter.
C25_Witness ==
    /\ pc = "done"
    /\ args.benchmark = "dashboard_speed_10m" /\ args.start_ts = None
    /\ args.vehicle_id # None /\ args.end_ts # None
    /\ hist.failed = "measured"
    /\ hist.closes = 1
    /\ exc = "ValueError"

IsPrefix(s, t) == Len(s) <= Len(t) /\ SubSeq(t, 1, Len(s)) = s
ResultRows == [db : DbChoices, benchmark : BenchmarkChoices, run_idx : 1..(MaxRuns + 1),
               row_count : RowCounts]

\* One step of the sink: a file that does not exist stays away or is
\* created holding the header line alone; a file that exists keeps every
\* line it has, in place, and gains result rows at its end only.
SinkStep ==
    IF ~results_file.exists
    THEN results_file'.exists => results_file'.rows = <<HEADER>>
    ELSE /\ results_file'.exists
         /\ IsPrefix(results_file.rows, results_file'.rows)
         /\ \A i \in (Len(results_file.rows) + 1)..Len(results_file'.rows) :
                results_file'.rows[i] \in ResultRows

\* C26: over any sequence of invocations writing to one output path the
\* sink only grows: the header is written once, when the file is created,
\* and stays the first line; every row written earlier stays unchanged
\* and in place.
C26_SinkAppendOnly == [][SinkStep]_vars

\* The third invocation has ended; the file holds the header and rows of
\* earlier invocations followed by a row of this one.
C26_Witness ==
    /\ hist.inv = MaxInvocations /\ pc = "done"
    /\ Len(hist.base) >= 3
    /\ Len(results_file.rows) > Len(hist.base)
    /\ results_file.rows[1] = HEADER

\* The backends that keep vehicle and job records besides the samples.
ParentBackends == Backends \ {"influxdb"}

\* Nothing persisted belongs to the vehicle and job of the last call: no
\* vehicle record, no job record, no dataset row of the job or vehicle and
\* no sensor_record of a dataset row the job had before the call.
NoResidue ==
    /\ last.a.vehicle_id \notin db.committed.vehicle
    /\ \A j \in db.committed.job : j.id # last.a.job_id
    /\ \A d \in db.committed.dataset :
          d.job_id # last.a.job_id /\ d.vehicle_id # last.a.vehicle_id
    /\ \A s \in db.committed.sensor_record :
          \A d \in {x \in last.committed0.dataset : x.job_id = last.a.job_id} :
             Overlap(s.dataset_id0, s.n, d.id0, d.n) = 0

\* C27: after a successful clean_data(vehicle_id, job_id), on every backend
\* that stores parent records, neither the job nor the vehicle record
\* exists and no dataset or sensor record referencing them remains.
C27_CleanDataRemovesParents ==
    (last.op = "clean_data" /\ last.exc = "none" /\ db.backend \in ParentBackends) =>
        NoResidue

\* C28: every result row appended to the sink carries the logical name of
\* the selected benchmark in its benchmark column and the selected backend
\* in its db column.
C28_RowsNameBenchmarkAndBackend ==
    pc # "ensure_results_file" =>
        \A k \in 1..Len(GainedRows) :
            /\ GainedRows[k].benchmark = args.benchmark
            /\ GainedRows[k].db = args.db

\* The vehicles a dataset row belongs to: its vehicle_id column or tag, or
\* the vehicle of its job in store st.
OwnersOf(st, d) ==
    IF d.vehicle_id # NoId THEN {d.vehicle_id}
    ELSE {j.vehicle_id : j \in {x \in st.job : x.id = d.job_id}}

\* The part of store now that belongs neither to vehicle v nor to job j,
\* ownership being read from store st.
OthersRows(st, now, v, j) ==
    LET other(d) == d.job_id # j /\ v \notin OwnersOf(st, d) IN
    [vehicle |-> now.vehicle \ {v},
     job |-> {x \in now.job : x.id # j /\ x.vehicle_id # v},
     dataset |-> {d \in now.dataset : other(d)},
     sensor_record |-> {r \in now.sensor_record :
                          \A d \in st.dataset :
                             Overlap(r.dataset_id0, r.n, d.id0, d.n) > 0 => other(d)}]

\* C29: clean_data(vehicle_id, job_id) leaves unchanged every row that
\* belongs to a different vehicle and a different job: what the connection
\* saw of them before the call it sees after it, and after a successful
\* call that is also what is persisted.
C29_CleanDataKeepsOthers ==
    (last.op = "clean_data" /\ last.conn0 # None) =>
        LET before == OthersRows(last.view0, last.view0, last.a.vehicle_id, last.a.job_id) IN
        /\ OthersRows(last.view0, db.view, last.a.vehicle_id, last.a.job_id) = before
        /\ last.exc = "none" =>
              OthersRows(last.view0, db.committed, last.a.vehicle_id, last.a.job_id) = before

\* A successful clean_data(1, 1) on a store that holds rows of vehicle 2:
\* the rows of job 1 are gone, those of vehicle 2 are where they were.
C29_Witness ==
    /\ last.op = "clean_data" /\ last.exc = "none" /\ db.backend # "questdb"
    /\ last.a = [vehicle_id |-> 1, job_id |-> 1]
    /\ \E d \in last.view0.dataset : d.job_id = 1
    /\ \A d \in db.committed.dataset : d.job_id # 1
    /\ \E d \in db.committed.dataset : d.job_id = 3

\* The ids of a segment of rows, and key integrity of a narrow store: ids
\* are unique within dataset and within sensor_record, and the dataset_id
\* of every sensor_record is the id of a dataset row.
SegIds(g) == g.id0..(g.id0 + g.n - 1)
UniqueIds(S) == \A g, h \in S : g # h => SegIds(g) \cap SegIds(h) = {}
KeyIntegrity(st) ==
    /\ UniqueIds(st.dataset)
    /\ UniqueIds(st.sensor_record)
    /\ \A s \in st.sensor_record :
          s.dataset_id0..(s.dataset_id0 + s.n - 1) \subseteq UNION {SegIds(d) : d \in st.dataset}

\* C30: on the narrow adapter, across any serial sequence of insert_batch
\* calls (committed or rolled back) and clean_data calls on one connection,
\* in every reachable state no two persisted dataset rows share an id, no
\* two persisted sensor_record rows share an id, and every persisted
\* sensor_record references a persisted dataset row.
C30_NarrowKeyIntegrity ==
    db.backend = "mssql_narrow" => KeyIntegrity(db.committed)

\* clean_data has returned on the narrow adapter after an insert_batch that
\* committed: rows of that batch and loaded rows are persisted side by side.
C30_Witness ==
    /\ db.backend = "mssql_narrow"
    /\ last.op = "clean_data" /\ last.exc = "none"
    /\ \E d \in db.committed.dataset : d.sid > Cardinality(LoadedRuns)
    /\ \E d \in db.committed.dataset : d.sid <= Cardinality(LoadedRuns)
    /\ \E s \in db.committed.sensor_record : s.sid > Cardinality(LoadedRuns)

====
